---- MODULE Spec2Model ----
(***************************************************************************)
(* Model of biothings_explorer/networkx_helper.py: the response            *)
(* normalizer (load_res_to_networkx), the identifier resolver adapter      *)
(* (add_equivalent_ids_to_nodes), the graph merger                         *)
(* (merge_two_networkx_graphs), the provenance accessor                    *)
(* (retrieve_prop_from_edge) and the tabularizer                           *)
(* (connect_networkx_to_pandas_df).                                        *)
(*                                                                         *)
(* Python values are encoded as tuples.  A str is the tuple of its         *)
(* characters (<<"D","1">> is 'D1').  Every other value starts with a tag  *)
(* that is no character: <<"None">>, <<"int", n>>, <<"list", x1, .., xn>>, *)
(* <<"dict", r>>, and <<"Absent">> for a key a dict does not hold.  A      *)
(* raised exception is <<"raise", name>>.                                  *)
(***************************************************************************)
EXTENDS Integers, Sequences, FiniteSets, TLC

VARIABLES
    G,      \* the graph the pipeline mutates in place
    call,   \* the arguments of the call under study (normalize, accessor)
    hist,   \* the graphs returned by the calls made so far, oldest first
    heap,   \* named graph objects handed to merge_two_networkx_graphs
    last    \* record of the last call: operation, inputs, graph before, result

vars == <<G, call, hist, heap, last>>

-----------------------------------------------------------------------------
(* Python values *)

None == <<"None">>

Absent == <<"Absent">>

IntV(n) == <<"int", n>>

ListV(s) == <<"list">> \o s

DictV(r) == <<"dict", r>>

Raise(name) == <<"raise", name>>

IsRaise(x) == Len(x) = 2 /\ x[1] = "raise"

IsInt(x) == Len(x) = 2 /\ x[1] = "int"

IsList(x) == Len(x) >= 1 /\ x[1] = "list"

IsDict(x) == Len(x) = 2 /\ x[1] = "dict"

IsStr(x) == Len(x) = 0 \/ x[1] \notin {"int", "list", "dict", "None", "Absent", "raise"}

Items(l) == Tail(l)

\* bool(x) for the values the code tests: None, '' , [] and 0 are falsy.
Truthy(x) ==
    IF x = None \/ x = Absent THEN FALSE
    ELSE IF IsInt(x) THEN x[2] # 0
    ELSE IF IsList(x) THEN Len(x) > 1
    ELSE IF IsDict(x) THEN TRUE
    ELSE Len(x) > 0

\* d.get(key): None when the key is absent.
Get(d, key) == IF d[2][key] = Absent THEN None ELSE d[2][key]

DigitChar == <<"0", "1", "2", "3", "4", "5", "6", "7", "8", "9">>

RECURSIVE Digits(_)
Digits(n) ==
    IF n < 10 THEN <<DigitChar[n + 1]>>
    ELSE Digits(n \div 10) \o <<DigitChar[(n % 10) + 1]>>

\* str(x) of a str or a non-negative int.
Str(x) == IF IsInt(x) THEN Digits(x[2]) ELSE x

RECURSIVE StrAll(_)
StrAll(s) == IF s = <<>> THEN <<>> ELSE <<Str(Head(s))>> \o StrAll(Tail(s))

-----------------------------------------------------------------------------
(* networkx.MultiDiGraph: nodes in insertion order with their attribute    *)
(* dicts, edges in insertion order (so G[u][v].values() is the             *)
(* subsequence of the edges from u to v).                                  *)

NoAttr == [identifier |-> Absent, type |-> Absent, level |-> Absent, equivalent_ids |-> Absent]

EmptyGraph == [node |-> <<>>, edge |-> <<>>]

NodeKeys(g) == {g.node[i].k : i \in 1..Len(g.node)}

HasNode(g, k) == k \in NodeKeys(g)

NodeIndex(g, k) == CHOOSE i \in 1..Len(g.node) : g.node[i].k = k

NodeAttr(g, k) == g.node[NodeIndex(g, k)].a

\* dict.update: the keys of upd replace those of old.
Update(old, upd) == [f \in DOMAIN old |-> IF f \in DOMAIN upd THEN upd[f] ELSE old[f]]

SetNodeAttr(g, k, upd) ==
    [g EXCEPT !.node[NodeIndex(g, k)].a = Update(@, upd)]

add_node(g, k, upd) ==
    IF HasNode(g, k) THEN SetNodeAttr(g, k, upd)
    ELSE [g EXCEPT !.node = Append(@, [k |-> k, a |-> Update(NoAttr, upd)])]

RECURSIVE add_nodes_from(_, _, _)
add_nodes_from(g, ks, upd) ==
    IF ks = <<>> THEN g
    ELSE add_nodes_from(add_node(g, Head(ks), upd), Tail(ks), upd)

\* faulty variant: add_edge of a simple graph: an edge equal to one already there is
\* not added again.
add_edge_once(g, u, v, d) ==
    IF \E i \in 1..Len(g.edge) : g.edge[i] = [u |-> u, v |-> v, d |-> d] THEN g
    ELSE LET g1 == IF HasNode(g, u) THEN g ELSE [g EXCEPT !.node = Append(@, [k |-> u, a |-> NoAttr])]
             g2 == IF HasNode(g1, v) THEN g1 ELSE [g1 EXCEPT !.node = Append(@, [k |-> v, a |-> NoAttr])]
         IN  [g2 EXCEPT !.edge = Append(@, [u |-> u, v |-> v, d |-> d])]

\* add_edge creates missing endpoints without attributes and always adds a
\* new parallel edge (no key is given).
add_edge(g, u, v, d) ==
    LET g1 == IF HasNode(g, u) THEN g ELSE [g EXCEPT !.node = Append(@, [k |-> u, a |-> NoAttr])]
        g2 == IF HasNode(g1, v) THEN g1 ELSE [g1 EXCEPT !.node = Append(@, [k |-> v, a |-> NoAttr])]
    IN  [g2 EXCEPT !.edge = Append(@, [u |-> u, v |-> v, d |-> d])]

\* G[u][v].values()
EdgesBetween(g, u, v) == SelectSeq(g.edge, LAMBDA e : e.u = u /\ e.v = v)

\* number of parallel edges of g equal to e (endpoints and attributes)
EdgeCount(g, e) == Cardinality({i \in 1..Len(g.edge) : g.edge[i] = e})

EdgeSet(g) == {g.edge[i] : i \in 1..Len(g.edge)}

\* G.nodes(data=True) as a set of (key, attributes)
NodeMap(g) == {<<g.node[i].k, g.node[i].a>> : i \in 1..Len(g.node)}

-----------------------------------------------------------------------------
(* load_res_to_networkx *)

Level2 == IntV(2)

RECURSIVE EdgesLoop(_, _, _, _, _, _)
EdgesLoop(g, src, js, b, a, source) ==
    IF js = <<>> THEN g
    ELSE EdgesLoop(add_edge(g, src, Head(js), [info |-> b, label |-> a, source |-> source]),
                   src, Tail(js), b, a, source)

\* faulty variant: the node is tagged with the outer property instead of the nested
\* identifier kind.
KindStep_outer(g, i, j, b, a, src, output_id_types) ==
    IF i \in output_id_types /\ Truthy(j)
    THEN LET output_type == Get(b, "type")
             source == Get(b, "source")
             js == StrAll(Items(j))
             g1 == add_nodes_from(g, js, [identifier |-> a, type |-> output_type, level |-> Level2])
         IN  EdgesLoop(g1, src, js, b, a, source)
    ELSE g

KindStep(g, i, j, b, a, src, output_id_types) ==
    IF i \in output_id_types /\ Truthy(j)
    THEN LET output_type == Get(b, "type")
             source == Get(b, "source")
             js == StrAll(Items(j))
             g1 == add_nodes_from(g, js, [identifier |-> i, type |-> output_type, level |-> Level2])
         IN  EdgesLoop(g1, src, js, b, a, source)
    ELSE g

RECURSIVE KindsLoop(_, _, _, _, _, _)
KindsLoop(g, items, b, a, src, output_id_types) ==
    IF items = <<>> THEN g
    ELSE KindsLoop(KindStep(g, Head(items)[1], Head(items)[2], b, a, src, output_id_types),
                   Tail(items), b, a, src, output_id_types)

ValueStep(g, b, a, n, src, output_id_types) ==
    IF ~IsDict(b)
    THEN add_edge(add_node(g, Str(b), [identifier |-> a, type |-> n[2].type, level |-> Level2]),
                  src, Str(b), [info |-> None, label |-> a, source |-> Absent])
    ELSE KindsLoop(g, b[2].ids, b, a, src, output_id_types)

RECURSIVE ValuesLoop(_, _, _, _, _, _)
ValuesLoop(g, bs, a, n, src, output_id_types) ==
    IF bs = <<>> THEN g
    ELSE ValuesLoop(ValueStep(g, Head(bs), a, n, src, output_id_types),
                    Tail(bs), a, n, src, output_id_types)

RECURSIVE PropsLoop(_, _, _, _, _, _)
PropsLoop(g, props, n, src, labels, output_id_types) ==
    IF props = <<>> THEN g
    ELSE LET a == Head(props)[1]
             b == Head(props)[2]
             g1 == IF a \in labels THEN ValuesLoop(g, Items(b), a, n, src, output_id_types) ELSE g
         IN  PropsLoop(g1, Tail(props), n, src, labels, output_id_types)

RECURSIVE ResLoop(_, _, _, _, _)
ResLoop(g, res, labels, id_mapping, output_id_types) ==
    IF res = <<>> THEN g
    ELSE LET m == Head(res)[1]
             n == Head(res)[2]
             g1 == IF Truthy(n)
                   THEN PropsLoop(g, n[2].props, n, id_mapping[m], labels, output_id_types)
                   ELSE g
         IN  ResLoop(g1, Tail(res), labels, id_mapping, output_id_types)

\* _res is None or the dict of its items (m, n), in dict order; an empty or
\* None _res leaves G as it is.
load_res_to_networkx(res, g, labels, id_mapping, output_id_types) ==
    IF res = None THEN g ELSE ResLoop(g, res[2], labels, id_mapping, output_id_types)

-----------------------------------------------------------------------------
(* merge_two_networkx_graphs *)

\* add_nodes_from([(k, v)]): the attributes v holds are set on node k
add_node_with(g, k, v) ==
    LET old == IF HasNode(g, k) THEN NodeAttr(g, k) ELSE NoAttr
        new == [f \in DOMAIN old |-> IF v[f] # Absent THEN v[f] ELSE old[f]]
    IN  IF HasNode(g, k) THEN [g EXCEPT !.node[NodeIndex(g, k)].a = new]
        ELSE [g EXCEPT !.node = Append(@, [k |-> k, a |-> new])]

RECURSIVE add_node_pairs(_, _)
add_node_pairs(g, pairs) ==
    IF pairs = <<>> THEN g
    ELSE add_node_pairs(add_node_with(g, Head(pairs).k, Head(pairs).a), Tail(pairs))

RECURSIVE add_edges_from(_, _)
add_edges_from(g, es) ==
    IF es = <<>> THEN g
    ELSE add_edges_from(add_edge(g, Head(es).u, Head(es).v, Head(es).d), Tail(es))

\* faulty variant: every node of G2 is taken, so G2's attributes overwrite G1's
nodes_to_add_all(G1, G2) == G2.node

\* faulty variant: the membership test is inverted
nodes_to_add_present(G1, G2) == SelectSeq(G2.node, LAMBDA n : HasNode(G1, n.k))

nodes_to_add(G1, G2) == SelectSeq(G2.node, LAMBDA n : ~HasNode(G1, n.k))

merge_two_networkx_graphs(G1, G2) ==
    add_edges_from(add_node_pairs(G1, nodes_to_add(G1, G2)), G2.edge)

-----------------------------------------------------------------------------
(* add_equivalent_ids_to_nodes *)

\* position of the first sep in s, 0 when there is none
FirstIndex(s, sep) ==
    IF \E i \in 1..Len(s) : s[i] = sep
    THEN CHOOSE i \in 1..Len(s) : s[i] = sep /\ \A j \in 1..(i - 1) : s[j] # sep
    ELSE 0

\* s.split(sep)
RECURSIVE Split(_, _)
Split(s, sep) ==
    LET i == FirstIndex(s, sep)
    IN  IF i = 0 THEN <<s>>
        ELSE <<SubSeq(s, 1, i - 1)>> \o Split(SubSeq(s, i + 1, Len(s)), sep)

\* s.split(sep, 1)[-1]
AfterFirst(s, sep) ==
    LET i == FirstIndex(s, sep)
    IN  IF i = 0 THEN s ELSE SubSeq(s, i + 1, Len(s))

\* bool(y) of a node's attribute dict
HasAttrs(y) == \E f \in DOMAIN y : y[f] # Absent

\* [x for x, y in G.nodes(data=True) if y and y['level'] == 2], or the
\* KeyError of a node with attributes and no level
RECURSIVE output_ids_of(_)
output_ids_of(nodes) ==
    IF nodes = <<>> THEN ListV(<<>>)
    ELSE LET y == Head(nodes).a
             rest == output_ids_of(Tail(nodes))
         IN  IF HasAttrs(y) /\ y.level = Absent THEN Raise("KeyError")
             ELSE IF IsRaise(rest) THEN rest
             ELSE IF HasAttrs(y) /\ y.level = Level2 THEN ListV(<<Head(nodes).k>> \o Items(rest))
             ELSE rest

\* G.node[_id]['type'] + ',' + G.node[_id]['identifier']
type_identifier(g, id) ==
    LET y == NodeAttr(g, id)
    IN  IF y.type = Absent \/ y.identifier = Absent THEN Raise("KeyError")
        ELSE IF ~IsStr(y.type) \/ ~IsStr(y.identifier) THEN Raise("TypeError")
        ELSE y.type \o <<",">> \o y.identifier

\* output_ids_dict[type_identifier].append(_id): the groups, in the order
\* their keys were first seen
GroupAppend(groups, key, id) ==
    IF \E i \in 1..Len(groups) : groups[i][1] = key
    THEN [i \in 1..Len(groups) |->
            IF groups[i][1] = key THEN <<key, Append(groups[i][2], id)>> ELSE groups[i]]
    ELSE Append(groups, <<key, <<id>> >>)

RECURSIVE GroupLoop(_, _, _)
GroupLoop(g, ids, groups) ==
    IF ids = <<>> THEN ListV(groups)
    ELSE LET key == type_identifier(g, Head(ids))
         IN  IF IsRaise(key) THEN key
             ELSE GroupLoop(g, Tail(ids), GroupAppend(groups, key, Head(ids)))

\* input_cls, input_id = k.split(','); idc_inputs.append((v, input_id, input_cls))
RECURSIVE InputsLoop(_)
InputsLoop(groups) ==
    IF groups = <<>> THEN ListV(<<>>)
    ELSE LET parts == Split(Head(groups)[1], ",")
             rest == InputsLoop(Tail(groups))
         IN  IF Len(parts) # 2 THEN Raise("ValueError")
             ELSE IF IsRaise(rest) THEN rest
             ELSE ListV(<< <<Head(groups)[2], parts[2], parts[1]>> >> \o Items(rest))

\* the list of requests handed to IDConverter.convert_ids, or the exception
\* raised before the call
idc_inputs_of(g) ==
    LET output_ids == output_ids_of(g.node)
    IN  IF IsRaise(output_ids) THEN output_ids
        ELSE LET groups == GroupLoop(g, Items(output_ids), <<>>)
             IN  IF IsRaise(groups) THEN groups ELSE InputsLoop(Items(groups))

\* for m, n in equivalent_ids.items(): G.node[m.split(':', 1)[-1]]['equivalent_ids'] = n
\* The graph is mutated in place, so a KeyError leaves the earlier writes.
RECURSIVE Populate(_, _)
Populate(g, items) ==
    IF items = <<>> THEN [g |-> g, ret |-> None]
    ELSE LET key == AfterFirst(Head(items)[1], ":")
         IN  IF ~HasNode(g, key) THEN [g |-> g, ret |-> Raise("KeyError")]
             ELSE Populate(SetNodeAttr(g, key, [equivalent_ids |-> Head(items)[2]]), Tail(items))

\* IDConverter.convert_ids: for each requested node key it recognizes, the
\* equivalent ids of that key, keyed by the node key, in request order
RECURSIVE RequestedKeys(_)
RequestedKeys(requests) ==
    IF requests = <<>> THEN <<>> ELSE Head(requests)[1] \o RequestedKeys(Tail(requests))

RECURSIVE KindOfKey(_, _)
KindOfKey(requests, k) ==
    IF \E i \in 1..Len(Head(requests)[1]) : Head(requests)[1][i] = k
    THEN Head(requests)[2]
    ELSE KindOfKey(Tail(requests), k)

convert_ids(requests, recognized) ==
    LET keys == SelectSeq(RequestedKeys(requests), LAMBDA k : k \in recognized)
    IN  [i \in 1..Len(keys) |->
            <<keys[i], DictV(<< <<KindOfKey(requests, keys[i]), ListV(<<keys[i]>>)>> >>)>>]

\* IDConverter stands for the set of node keys the resolver recognizes.
\* The result holds the graph as the call leaves it, the requests sent, the
\* mapping received and what the call returns or raises.
add_equivalent_ids_to_nodes(g, IDConverter) ==
    LET idc_inputs == idc_inputs_of(g)
        skipped == [g |-> g, idc_inputs |-> <<>>, equivalent_ids |-> <<>>, ret |-> None]
    IN  IF g.node = <<>> THEN skipped
        ELSE IF IsRaise(output_ids_of(g.node)) THEN [skipped EXCEPT !.ret = output_ids_of(g.node)]
        ELSE IF output_ids_of(g.node) = ListV(<<>>) THEN skipped
        ELSE IF IsRaise(idc_inputs) THEN [skipped EXCEPT !.ret = idc_inputs]
        ELSE LET equivalent_ids == convert_ids(Items(idc_inputs), IDConverter)
                 done == Populate(g, equivalent_ids)
             IN  [g |-> done.g, idc_inputs |-> Items(idc_inputs),
                  equivalent_ids |-> equivalent_ids, ret |-> done.ret]

-----------------------------------------------------------------------------
(* retrieve_prop_from_edge *)

\* ','.join(data): TypeError when an item is no str
RECURSIVE JoinStr(_)
JoinStr(data) ==
    IF Len(data) = 1 THEN Head(data) ELSE Head(data) \o <<",">> \o JoinStr(Tail(data))

Join(data) ==
    IF \E i \in 1..Len(data) : ~IsStr(data[i]) THEN Raise("TypeError")
    ELSE IF data = <<>> THEN <<>>
    ELSE JoinStr(data)

\* edge_info['info'].get(key): AttributeError when info is None
InfoGet(edge_info, key) ==
    IF edge_info.info = None THEN Raise("AttributeError") ELSE Get(edge_info.info, key)

\* the branch of 'api' and of 'source': a scalar becomes a one-item list
JoinedPlain(data) ==
    IF IsRaise(data) THEN data
    ELSE IF Truthy(data) THEN Join(IF ~IsList(data) THEN <<data>> ELSE Items(data))
    ELSE None

\* the branch of 'pubmed': the items of a list are stringified, a scalar is not
JoinedPubmed(data) ==
    IF IsRaise(data) THEN data
    ELSE IF Truthy(data) THEN Join(IF ~IsList(data) THEN <<data>> ELSE StrAll(Items(data)))
    ELSE None

retrieve_prop_from_edge(edge_info, prop) ==
    IF prop = "api" THEN JoinedPlain(InfoGet(edge_info, "api"))
    ELSE IF prop = "source" THEN JoinedPlain(InfoGet(edge_info, "source"))
    ELSE IF prop = "pubmed" THEN JoinedPubmed(InfoGet(edge_info, "pubmed"))
    ELSE None

-----------------------------------------------------------------------------
(* connect_networkx_to_pandas_df, called without filters *)

PrefixLen == 4

\* label[4:]
StripPrefix(label) == SubSeq(label, PrefixLen + 1, Len(label))

\* G.nodes[k]['type']
NodeType(g, k) ==
    IF ~HasNode(g, k) \/ NodeAttr(g, k).type = Absent THEN Raise("KeyError")
    ELSE NodeAttr(g, k).type

\* G.nodes[k].get('equivalent_ids')
NodeEquivalentIds(g, k) ==
    IF ~HasNode(g, k) THEN Raise("KeyError")
    ELSE IF NodeAttr(g, k).equivalent_ids = Absent THEN None
    ELSE NodeAttr(g, k).equivalent_ids

\* G[u][v] raises KeyError when no edge leads from u to v
Linked(g, u, v) == EdgesBetween(g, u, v) # <<>>

\* utils.get_primary_id_from_equivalent_ids: the first id of the first
\* identifier kind resolved for the node, none when nothing was resolved
get_primary_id_from_equivalent_ids(equivalent_ids, type) ==
    IF IsRaise(equivalent_ids) \/ IsRaise(type) THEN Raise("KeyError")
    ELSE IF equivalent_ids = None \/ equivalent_ids[2] = <<>> THEN None
    ELSE Items(equivalent_ids[2][1][2])[1]

NameKind == <<"n", "a", "m", "e">>

\* utils.get_name_from_equivalent_ids: the display name among the
\* equivalent ids, null when there is none
get_name_from_equivalent_ids(equivalent_ids, type) ==
    IF IsRaise(equivalent_ids) THEN Raise("KeyError")
    ELSE IF equivalent_ids = None THEN None
    ELSE IF \E i \in 1..Len(equivalent_ids[2]) : equivalent_ids[2][i][1] = NameKind
    THEN LET i == CHOOSE i \in 1..Len(equivalent_ids[2]) : equivalent_ids[2][i][1] = NameKind
         IN  Items(equivalent_ids[2][i][2])[1]
    ELSE None

\* the first exception among the values computed for a row, in order
RECURSIVE FirstRaise(_)
FirstRaise(vals) ==
    IF vals = <<>> THEN None
    ELSE IF IsRaise(Head(vals)) THEN Head(vals)
    ELSE FirstRaise(Tail(vals))

\* the row of a 3-node path for the edge pair (k, v)
Row3(g, path, k, v, node1_id, node1_name, output_id, output_name) ==
    [input |-> path[1],
     input_type |-> NodeType(g, path[1]),
     pred1 |-> StripPrefix(k.label),
     pred1_source |-> retrieve_prop_from_edge(k, "source"),
     pred1_api |-> retrieve_prop_from_edge(k, "api"),
     pred1_pubmed |-> retrieve_prop_from_edge(k, "pubmed"),
     node1_id |-> node1_id,
     node1_name |-> node1_name,
     node1_type |-> NodeType(g, path[2]),
     pred2 |-> StripPrefix(v.label),
     pred2_source |-> retrieve_prop_from_edge(v, "source"),
     pred2_api |-> retrieve_prop_from_edge(v, "api"),
     pred2_pubmed |-> retrieve_prop_from_edge(v, "pubmed"),
     output_id |-> output_id,
     output_name |-> output_name,
     output_type |-> NodeType(g, path[3])]

Row3Values(r) ==
    <<r.input_type, r.pred1_source, r.pred1_api, r.pred1_pubmed, r.node1_type,
      r.pred2_source, r.pred2_api, r.pred2_pubmed, r.output_type>>

\* the row of a 2-node path for the edge e
Row2(g, path, e, output_id, output_name) ==
    [input |-> path[1],
     input_type |-> NodeType(g, path[1]),
     pred1 |-> e.label,
     pred1_source |-> retrieve_prop_from_edge(e, "source"),
     pred1_api |-> retrieve_prop_from_edge(e, "api"),
     pred1_pubmed |-> retrieve_prop_from_edge(e, "pubmed"),
     output_id |-> output_id,
     output_name |-> output_name,
     output_type |-> NodeType(g, path[2])]

Row2Values(r) ==
    <<r.input_type, r.pred1_source, r.pred1_api, r.pred1_pubmed, r.output_type>>

\* itertools.product(start_edges, end_edges), as index pairs in its order
ProductIndex(m, n) == [i \in 1..(m * n) |-> <<((i - 1) \div n) + 1, ((i - 1) % n) + 1>>]

\* the list of rows one path appends to data, or the exception raised on
\* the way
PathRows(g, path) ==
    LET output_id == get_primary_id_from_equivalent_ids(
                         NodeEquivalentIds(g, path[Len(path)]), NodeType(g, path[Len(path)]))
        output_name == get_name_from_equivalent_ids(NodeEquivalentIds(g, path[Len(path)]), None)
    IN  IF IsRaise(output_id) THEN output_id
        ELSE IF Len(path) = 3
        THEN LET node1_id == get_primary_id_from_equivalent_ids(
                                 NodeEquivalentIds(g, path[2]), NodeType(g, path[2]))
                 node1_name == get_name_from_equivalent_ids(NodeEquivalentIds(g, path[2]), None)
                 start_edges == EdgesBetween(g, path[1], path[2])
                 end_edges == EdgesBetween(g, path[2], path[3])
             IN  IF IsRaise(node1_id) THEN node1_id
                 ELSE IF ~Linked(g, path[1], path[2]) \/ ~Linked(g, path[2], path[3])
                 THEN Raise("KeyError")
                 ELSE LET idx == ProductIndex(Len(start_edges), Len(end_edges))
                          rows == [i \in 1..Len(idx) |->
                                      Row3(g, path, start_edges[idx[i][1]].d, end_edges[idx[i][2]].d,
                                           node1_id, node1_name, output_id, output_name)]
                          bad == SelectSeq(rows, LAMBDA r : FirstRaise(Row3Values(r)) # None)
                      IN  IF bad # <<>> THEN FirstRaise(Row3Values(bad[1])) ELSE ListV(rows)
        ELSE LET edges == EdgesBetween(g, path[1], path[2])
             IN  IF ~Linked(g, path[1], path[2]) THEN Raise("KeyError")
                 ELSE LET rows == [i \in 1..Len(edges) |->
                                      Row2(g, path, edges[i].d, output_id, output_name)]
                          bad == SelectSeq(rows, LAMBDA r : FirstRaise(Row2Values(r)) # None)
                      IN  IF bad # <<>> THEN FirstRaise(Row2Values(bad[1])) ELSE ListV(rows)

\* for _path in paths: ... data.append(...)
RECURSIVE DataLoop(_, _, _)
DataLoop(g, paths, data) ==
    IF paths = <<>> THEN ListV(data)
    ELSE LET rows == PathRows(g, Head(paths))
         IN  IF IsRaise(rows) THEN rows ELSE DataLoop(g, Tail(paths), data \o Items(rows))

\* pred1, intermediate, intermediate_type and pred2 are None, so no row is
\* filtered out: the result is the list of the rows of the data frame, or
\* the exception raised
connect_networkx_to_pandas_df(g, paths) == DataLoop(g, paths, <<>>)

-----------------------------------------------------------------------------
(* Inputs of the normalizer *)

KG == <<"g">>

KM == <<"m">>

K1 == <<"1">>

K2 == <<"2">>

KA1 == <<"A", ":", "1">>

TGene == <<"G">>

TDis == <<"D">>

SrcS == <<"S">>

LP == <<"b", "t", "s", ":", "p">>

LQ == <<"b", "t", "s", ":", "q">>

LU == <<"b", "t", "s", ":", "u">>

KindK == <<"k">>

KindH == <<"h">>

KindX == <<"x">>

\* a structured response value: @type, $source, $api, bts:pubmed and the
\* identifier-kind keys (in dict order) with their id lists
Entry(type, source, api, pubmed, ids) ==
    DictV([type |-> type, source |-> source, api |-> api, pubmed |-> pubmed, ids |-> ids])

\* a response: @type and the schema properties (in dict order)
Response(type, props) == DictV([type |-> type, props |-> props])

E1 == Entry(TDis, SrcS, Absent, Absent, << <<KindK, ListV(<<K1, K2>>)>> >>)

E2 == Entry(TDis, SrcS, Absent, Absent, << <<KindK, ListV(<<K1>>)>>, <<KindH, ListV(<<IntV(1)>>)>> >>)

E3 == Entry(Absent, Absent, Absent, Absent, << <<KindX, ListV(<<K2>>)>>, <<KindK, ListV(<<>>)>> >>)

E4 == Entry(TGene, Absent, Absent, Absent, << <<KindH, ListV(<<KA1, KA1>>)>> >>)

E5 == Entry(Absent, SrcS, Absent, Absent, << <<KindK, ListV(<<IntV(12)>>)>> >>)

SeedAttr == [identifier |-> LP, type |-> TGene, level |-> IntV(1), equivalent_ids |-> Absent]

SeedGraph == [node |-> << [k |-> KG, a |-> SeedAttr] >>, edge |-> <<>>]

\* a graph an earlier round built and resolved: node '1' already holds
\* equivalent_ids and an edge
ResolvedAttr ==
    [identifier |-> KindH, type |-> TGene, level |-> Level2,
     equivalent_ids |-> DictV(<< <<KindK, ListV(<<K1>>)>> >>)]

OlderGraph ==
    [node |-> << [k |-> KG, a |-> SeedAttr], [k |-> K1, a |-> ResolvedAttr] >>,
     edge |-> << [u |-> KG, v |-> K1, d |-> [info |-> None, label |-> LP, source |-> Absent]] >>]

SeedGraphs == {EmptyGraph, SeedGraph, OlderGraph}

Values == {E1, E2, E3, E4, E5, K2, IntV(1)}

ValueLists ==
    {ListV(<<>>)} \cup {ListV(<<x>>) : x \in Values} \cup {ListV(<<x, y>>) : x, y \in Values}

SecondProps == {<<LQ, ListV(<<E2>>)>>, <<LU, ListV(<<E1>>)>>, <<LQ, ListV(<<K1>>)>>}

PropSeqs ==
    {<< <<a, b>> >> : a \in {LP, LU}, b \in ValueLists}
    \cup {<< <<LP, b>>, q >> : b \in ValueLists, q \in SecondProps}

OneInput == {DictV(<< <<KG, Response(TGene, ps)>> >>) : ps \in PropSeqs}

SmallResponses ==
    {None, Response(TGene, << <<LP, ListV(<<E1>>)>> >>), Response(TDis, << <<LQ, ListV(<<K1, E5>>)>> >>)}

TwoInputs == {DictV(<< <<KG, n1>>, <<KM, n2>> >>) : n1, n2 \in SmallResponses}

ResSet == {None, DictV(<<>>)} \cup OneInput \cup TwoInputs

\* input_id_map: to the seed node, to an output node of the same round, to a
\* key the graph does not hold
IdMaps ==
    { (KG :> KG) @@ (KM :> K1),
      (KG :> KG) @@ (KM :> KG),
      (KG :> KM) @@ (KM :> K2) }

NormalizeCalls ==
    [res : ResSet, labels : {{LP, LQ}}, id_mapping : IdMaps, output_id_types : {{KindK, KindH}}]

-----------------------------------------------------------------------------
(* Repeated normalization of one response into one graph *)

MaxRepeat == 2

InitNormalize ==
    /\ G \in SeedGraphs
    /\ call \in NormalizeCalls
    /\ hist = <<G>>
    /\ heap = <<>>
    /\ last = [op |-> "init"]

NormalizeAgain ==
    /\ Len(hist) <= MaxRepeat
    /\ G' = load_res_to_networkx(call.res, G, call.labels, call.id_mapping, call.output_id_types)
    /\ hist' = Append(hist, G')
    /\ UNCHANGED <<call, heap, last>>

SpecNormalize == InitNormalize /\ [][NormalizeAgain]_vars

-----------------------------------------------------------------------------
(* What a call of the normalizer is asked to materialize, read off its     *)
(* arguments: one occurrence per accepted scalar value and per id of an    *)
(* accepted, non-empty id list, numbered in reading order.                 *)

ResItems(c) == IF c.res = None THEN <<>> ELSE c.res[2]

PropsAt(c, r) == IF Truthy(ResItems(c)[r][2]) THEN ResItems(c)[r][2][2].props ELSE <<>>

ValsAt(c, r, p) ==
    IF PropsAt(c, r)[p][1] \in c.labels THEN Items(PropsAt(c, r)[p][2]) ELSE <<>>

IdsAt(c, b, kc) ==
    IF b[2].ids[kc][1] \in c.output_id_types /\ Truthy(b[2].ids[kc][2])
    THEN Items(b[2].ids[kc][2]) ELSE <<>>

OccOfValue(c, r, p, v) ==
    LET b == ValsAt(c, r, p)[v]
    IN  IF ~IsDict(b) THEN {<<r, p, v, 0, 0>>}
        ELSE UNION {{<<r, p, v, kc, x>> : x \in 1..Len(IdsAt(c, b, kc))} : kc \in 1..Len(b[2].ids)}

Occurrences(c) ==
    UNION {UNION {UNION {OccOfValue(c, r, p, v) : v \in 1..Len(ValsAt(c, r, p))}
                  : p \in 1..Len(PropsAt(c, r))}
           : r \in 1..Len(ResItems(c))}

StructOccurrences(c) == {o \in Occurrences(c) : o[4] > 0}

OccValue(c, o) == ValsAt(c, o[1], o[2])[o[3]]

OccLabel(c, o) == PropsAt(c, o[1])[o[2]][1]

OccSrc(c, o) == c.id_mapping[ResItems(c)[o[1]][1]]

OccKey(c, o) ==
    IF o[4] = 0 THEN Str(OccValue(c, o)) ELSE Str(IdsAt(c, OccValue(c, o), o[4])[o[5]])

OccKind(c, o) == IF o[4] = 0 THEN OccLabel(c, o) ELSE OccValue(c, o)[2].ids[o[4]][1]

OccType(c, o) ==
    IF o[4] = 0 THEN ResItems(c)[o[1]][2][2].type ELSE Get(OccValue(c, o), "type")

OccEdge(c, o) ==
    [u |-> OccSrc(c, o), v |-> OccKey(c, o),
     d |-> IF o[4] = 0
           THEN [info |-> None, label |-> OccLabel(c, o), source |-> Absent]
           ELSE [info |-> OccValue(c, o), label |-> OccLabel(c, o),
                 source |-> Get(OccValue(c, o), "source")]]

\* o is read before q
ReadBefore(o, q) ==
    \E i \in 1..4 : o[i] < q[i] /\ \A j \in 1..(i - 1) : o[j] = q[j]

\* no later occurrence writes the node of o with other attributes
LastWriter(c, o) ==
    \A q \in Occurrences(c) :
        (OccKey(c, q) = OccKey(c, o) /\ ReadBefore(o, q))
            => (OccKind(c, q) = OccKind(c, o) /\ OccType(c, q) = OccType(c, o))

NewEdgeCount(g0, g1, e) == EdgeCount(g1, e) - EdgeCount(g0, e)

OccCount(c, e) == Cardinality({o \in Occurrences(c) : OccEdge(c, o) = e})

Called == Len(hist) >= 2

\* C1 (as claimed): after the call, every id of an accepted non-empty id list
\* of a structured value b under an accepted property a of input m has a node
\* str(id) with identifier = its nested key, type = b's @type, level = 2, and
\* one new edge input_id_map[m] -> str(id) with label a, info b, source b's
\* $source for each id read (equal ids give equal edges, counted together).
C1_AsClaimed ==
    Called =>
        \A o \in StructOccurrences(call) :
            /\ HasNode(hist[2], OccKey(call, o))
            /\ NodeAttr(hist[2], OccKey(call, o)).identifier = OccKind(call, o)
            /\ NodeAttr(hist[2], OccKey(call, o)).type = OccType(call, o)
            /\ NodeAttr(hist[2], OccKey(call, o)).level = Level2
            /\ NewEdgeCount(hist[1], hist[2], OccEdge(call, o)) = OccCount(call, OccEdge(call, o))

\* C1 (amended): every such id has a level-2 node str(id); the node carries
\* the nested key and @type of the last occurrence read that yields its key;
\* the call adds exactly one edge per occurrence (so as many equal edges as
\* there are equal occurrences); and nothing else is created or changed:
\* the other nodes are the endpoints input_id_map[m], created bare when
\* missing, and skipped properties, kinds and null responses add nothing.
C1_Normalize ==
    Called =>
        /\ \A o \in Occurrences(call) :
              /\ HasNode(hist[2], OccKey(call, o))
              /\ NodeAttr(hist[2], OccKey(call, o)).level = Level2
              /\ LastWriter(call, o) =>
                    /\ NodeAttr(hist[2], OccKey(call, o)).identifier = OccKind(call, o)
                    /\ NodeAttr(hist[2], OccKey(call, o)).type = OccType(call, o)
        /\ \A e \in EdgeSet(hist[2]) \cup {OccEdge(call, o) : o \in Occurrences(call)} :
              NewEdgeCount(hist[1], hist[2], e) = OccCount(call, e)
        /\ NodeKeys(hist[2]) =
              NodeKeys(hist[1]) \cup {OccKey(call, o) : o \in Occurrences(call)}
                                \cup {OccSrc(call, o) : o \in Occurrences(call)}
        /\ \A k \in NodeKeys(hist[2]) \ {OccKey(call, o) : o \in Occurrences(call)} :
              NodeAttr(hist[2], k) = IF HasNode(hist[1], k) THEN NodeAttr(hist[1], k) ELSE NoAttr
        /\ \A k \in NodeKeys(hist[1]) :
              NodeAttr(hist[2], k).equivalent_ids = NodeAttr(hist[1], k).equivalent_ids

\* C1 witness: a call has read a structured value with two ids in one list
\* and one whose two nested keys yield the same node key.
C1_Witness ==
    /\ Called
    /\ \E o, q \in StructOccurrences(call) :
          o # q /\ OccKey(call, o) = OccKey(call, q) /\ OccKind(call, o) # OccKind(call, q)
    /\ \E o, q \in StructOccurrences(call) :
          o[4] = q[4] /\ o[5] # q[5] /\ OccKey(call, o) # OccKey(call, q)
    /\ Len(hist[2].edge) > Len(hist[1].edge)

\* C4 (as claimed): a second call with the same arguments leaves the graph as
\* the first call returned it, node set, attributes and edge multiset.
C4_AsClaimed ==
    Len(hist) >= 3 =>
        /\ NodeMap(hist[3]) = NodeMap(hist[2])
        /\ \A e \in EdgeSet(hist[3]) : EdgeCount(hist[3], e) = EdgeCount(hist[2], e)

\* C4 (amended): every further call with the same arguments leaves the nodes
\* (keys, order, attributes) as the first call returned them, and adds again
\* every edge the first call added: after k calls an edge the first call
\* added n times is there k*n times more than before the first call.
C4_Renormalize ==
    \A k \in 2..(Len(hist) - 1) :
        /\ hist[k + 1].node = hist[2].node
        /\ \A e \in EdgeSet(hist[k + 1]) :
              EdgeCount(hist[k + 1], e) =
                  EdgeCount(hist[1], e) + k * NewEdgeCount(hist[1], hist[2], e)

\* C4 witness: the second call ran on a graph to which the first call had
\* added nodes and edges.
C4_Witness ==
    /\ Len(hist) >= 3
    /\ Len(hist[2].edge) > Len(hist[1].edge)
    /\ Len(hist[2].node) > Len(hist[1].node)
    /\ Len(hist[3].edge) > Len(hist[2].edge)

-----------------------------------------------------------------------------
(* Merging independent graphs: (G1 + G2) + G3, G1 + (G2 + G3), G1 + empty  *)

KB == <<"B">>

KC == <<"C">>

AttrB1 ==
    [identifier |-> KindK, type |-> TDis, level |-> Level2,
     equivalent_ids |-> DictV(<< <<KindK, ListV(<<KB>>)>> >>)]

AttrB2 == [identifier |-> KindH, type |-> TGene, level |-> Level2, equivalent_ids |-> Absent]

AttrC1 == [identifier |-> KindK, type |-> TDis, level |-> Level2, equivalent_ids |-> Absent]

AttrC2 ==
    [identifier |-> KindH, type |-> None, level |-> Level2,
     equivalent_ids |-> DictV(<< <<KindH, ListV(<<KC>>)>> >>)]

EdgeGB1 == [u |-> KG, v |-> KB, d |-> [info |-> None, label |-> LP, source |-> Absent]]

EdgeGB2 == [u |-> KG, v |-> KB, d |-> [info |-> E1, label |-> LQ, source |-> SrcS]]

EdgeBC == [u |-> KB, v |-> KC, d |-> [info |-> E5, label |-> LP, source |-> SrcS]]

EdgeCB == [u |-> KC, v |-> KB, d |-> [info |-> None, label |-> LQ, source |-> Absent]]

MergeGraphs ==
    { EmptyGraph,
      [node |-> << [k |-> KG, a |-> SeedAttr], [k |-> KB, a |-> AttrB1] >>,
       edge |-> <<EdgeGB1, EdgeGB1>>],
      [node |-> << [k |-> KB, a |-> AttrB2], [k |-> KC, a |-> AttrC1] >>,
       edge |-> <<EdgeBC>>],
      [node |-> << [k |-> KB, a |-> AttrB2], [k |-> KG, a |-> NoAttr] >>,
       edge |-> <<EdgeGB1, EdgeGB2>>],
      [node |-> << [k |-> KC, a |-> AttrC2], [k |-> KG, a |-> SeedAttr] >>,
       edge |-> <<>>],
      [node |-> << [k |-> KG, a |-> SeedAttr], [k |-> KB, a |-> AttrB1], [k |-> KC, a |-> AttrC1] >>,
       edge |-> <<EdgeGB2, EdgeBC, EdgeBC>>],
      [node |-> << [k |-> KB, a |-> AttrB1] >>, edge |-> <<>>],
      [node |-> << [k |-> KC, a |-> AttrC2], [k |-> KB, a |-> NoAttr] >>,
       edge |-> <<EdgeCB, EdgeCB>>] }

\* the calls, in order: base graph, incoming graph.  L1 becomes
\* merge(merge(G1, G2), G3), R1 becomes merge(G1, merge(G2, G3)), I becomes
\* merge(G1, empty graph).
MergeScript ==
    << <<"L1", "L2">>, <<"L1", "L3">>, <<"R2", "R3">>, <<"R1", "R2">>, <<"I", "E">> >>

InitMerge ==
    /\ call \in [G1 : MergeGraphs, G2 : MergeGraphs, G3 : MergeGraphs]
    /\ heap = [L1 |-> call.G1, L2 |-> call.G2, L3 |-> call.G3,
               R1 |-> call.G1, R2 |-> call.G2, R3 |-> call.G3,
               I |-> call.G1, E |-> EmptyGraph]
    /\ hist = <<>>
    /\ G = EmptyGraph
    /\ last = [op |-> "init"]

MergeCall ==
    /\ Len(hist) < Len(MergeScript)
    /\ LET base == MergeScript[Len(hist) + 1][1]
           incoming == MergeScript[Len(hist) + 1][2]
           merged == merge_two_networkx_graphs(heap[base], heap[incoming])
       IN  /\ heap' = [heap EXCEPT ![base] = merged]
           /\ hist' = Append(hist, merged)
           /\ last' = [op |-> "merge", base |-> heap[base], incoming |-> heap[incoming],
                       out |-> merged]
    /\ UNCHANGED <<G, call>>

SpecMerge == InitMerge /\ [][MergeCall]_vars

SameEdges(g, h) ==
    \A e \in EdgeSet(g) \cup EdgeSet(h) : EdgeCount(g, e) = EdgeCount(h, e)

\* C2: after every merge the node set is nodes(G1) \cup nodes(G2); every node
\* G1 held keeps its G1 attributes (equivalent_ids included) whatever G2
\* holds for that key; every node only in G2 arrives with its G2 attributes.
C2_MergeNodes ==
    last.op = "merge" =>
        /\ NodeKeys(last.out) = NodeKeys(last.base) \cup NodeKeys(last.incoming)
        /\ Len(last.out.node) = Cardinality(NodeKeys(last.out))
        /\ \A k \in NodeKeys(last.base) : NodeAttr(last.out, k) = NodeAttr(last.base, k)
        /\ \A k \in NodeKeys(last.incoming) \ NodeKeys(last.base) :
              NodeAttr(last.out, k) = NodeAttr(last.incoming, k)

\* C2 witness: a merge whose two graphs share a node with different
\* attributes, the incoming one also bringing a node of its own.
C2_Witness ==
    /\ last.op = "merge"
    /\ \E k \in NodeKeys(last.base) \cap NodeKeys(last.incoming) :
          NodeAttr(last.base, k) # NodeAttr(last.incoming, k)
    /\ NodeKeys(last.incoming) \ NodeKeys(last.base) # {}

MergesDone == Len(hist) = Len(MergeScript)

\* C3: merge(merge(G1, G2), G3) and merge(G1, merge(G2, G3)) have the same
\* nodes, node attributes and multiset of edges, and merge(G1, empty graph)
\* has the nodes, attributes and edges of G1.
C3_MergeAssocIdentity ==
    MergesDone =>
        /\ NodeMap(heap.L1) = NodeMap(heap.R1)
        /\ SameEdges(heap.L1, heap.R1)
        /\ NodeMap(heap.I) = NodeMap(call.G1)
        /\ SameEdges(heap.I, call.G1)

\* C3 witness: three non-empty graphs, pairwise sharing nodes with different
\* attributes, with parallel edges, merged both ways.
C3_Witness ==
    /\ MergesDone
    /\ call.G1 # EmptyGraph /\ call.G2 # EmptyGraph /\ call.G3 # EmptyGraph
    /\ call.G1 # call.G2 /\ call.G2 # call.G3 /\ call.G1 # call.G3
    /\ \E k \in NodeKeys(call.G1) \cap NodeKeys(call.G3) :
          k \notin NodeKeys(call.G2) /\ NodeAttr(call.G1, k) # NodeAttr(call.G3, k)
    /\ \E e \in EdgeSet(heap.L1) : EdgeCount(heap.L1, e) >= 2

-----------------------------------------------------------------------------
(* The provenance accessor on one edge *)

Api1 == <<"a", "1">>

Api2 == <<"a", "2">>

SrcT == <<"T">>

Pm == <<"p">>

ApiValues == {Absent, Api1, ListV(<<Api1, Api2>>), ListV(<<Api1>>)}

SourceValues == {Absent, SrcS, ListV(<<SrcS, SrcT>>)}

PubmedValues == {Absent, Pm, IntV(7), ListV(<<Pm, IntV(7)>>), ListV(<<IntV(7), IntV(18)>>)}

Payloads ==
    {Entry(TDis, s, a, p, << <<KindK, ListV(<<K1>>)>> >>) :
        s \in SourceValues, a \in ApiValues, p \in PubmedValues}

EdgeAttrs ==
    {[info |-> b, label |-> LP, source |-> Get(b, "source")] : b \in Payloads}
    \cup {[info |-> None, label |-> LP, source |-> Absent]}

Props == {"api", "source", "pubmed"}

InitProp ==
    /\ call \in [edge_info : EdgeAttrs, prop : Props]
    /\ last = [op |-> "init"]
    /\ G = EmptyGraph
    /\ hist = <<>>
    /\ heap = <<>>

Retrieve ==
    /\ last.op = "init"
    /\ last' = [op |-> "retrieve", ret |-> retrieve_prop_from_edge(call.edge_info, call.prop)]
    /\ UNCHANGED <<G, call, hist, heap>>

SpecProp == InitProp /\ [][Retrieve]_vars

\* what the accessor is to return for the value found under the key
ProvenanceText(data, prop) ==
    IF data = None THEN None
    ELSE LET items == IF IsList(data) THEN Items(data) ELSE <<data>>
         IN  Join(IF prop = "pubmed" THEN StrAll(items) ELSE items)

\* C8: for an edge whose info is a payload dict the result is null when the
\* key ($api, $source, bts:pubmed) is absent, otherwise the comma-joined
\* values, a scalar taken as a one-item list and citation identifiers that
\* are no strings stringified, be they a scalar or the items of a list.
C8_Accessor ==
    (last.op = "retrieve" /\ call.edge_info.info # None) =>
        last.ret = ProvenanceText(Get(call.edge_info.info, call.prop), call.prop)

-----------------------------------------------------------------------------
(* The pipeline on one graph: normalize, resolve, merge, tabularize *)

MaxCalls == 3

MaxPaths == 2

TComma == <<"D", ",", "X">>

\* an entry with its provenance: an API list, a scalar numeric citation
E6 == Entry(TDis, SrcS, ListV(<<Api1, Api2>>), IntV(7), << <<KindK, ListV(<<K2>>)>> >>)

\* an entry with its provenance: a scalar API, a list of citations
E7 == Entry(TDis, ListV(<<SrcS, SrcT>>), Api1, ListV(<<Pm, IntV(7)>>), << <<KindK, ListV(<<K2>>)>> >>)

\* an entry whose @type holds a comma
E8 == Entry(TComma, SrcS, Absent, Absent, << <<KindK, ListV(<<K2>>)>> >>)

IdMapSeed == (KG :> KG) @@ (KM :> K1)

IdMapNew == (KG :> KM) @@ (KM :> K2)

PipelineCall(m, type, a, values, id_mapping) ==
    [res |-> DictV(<< <<m, Response(type, << <<a, ListV(values)>> >>)>> >>),
     labels |-> {LP, LQ}, id_mapping |-> id_mapping, output_id_types |-> {KindK, KindH}]

PipelineCalls ==
    { PipelineCall(KG, TGene, LP, <<E1>>, IdMapSeed),
      PipelineCall(KG, TGene, LP, <<K2>>, IdMapSeed),
      PipelineCall(KM, TDis, LQ, <<E7>>, IdMapSeed),
      PipelineCall(KM, TDis, LQ, <<E6>>, IdMapSeed),
      PipelineCall(KM, TDis, LQ, <<IntV(2)>>, IdMapSeed),
      PipelineCall(KG, TGene, LP, <<E5>>, IdMapSeed),
      PipelineCall(KG, TGene, LP, <<E8>>, IdMapSeed),
      PipelineCall(KG, TGene, LP, <<E4>>, IdMapSeed),
      PipelineCall(KG, TGene, LP, <<E1>>, IdMapNew),
      PipelineCall(KG, TGene, LP, <<E1, E1>>, IdMapSeed),
      PipelineCall(KM, TDis, LQ, <<E7, E7, E7>>, IdMapSeed) }

\* graphs built by an independent query, to be merged in
IncomingGraphs ==
    { load_res_to_networkx(c.res, SeedGraph, c.labels, c.id_mapping, c.output_id_types) :
        c \in {PipelineCall(KG, TGene, LQ, <<E1, E7>>, IdMapSeed),
               PipelineCall(KG, TGene, LP, <<K1>>, IdMapSeed)} }

\* node sequences of length 2 or 3 whose consecutive nodes are joined by an edge
Paths(g) ==
    {<<e.u, e.v>> : e \in EdgeSet(g)}
    \cup {p \in NodeKeys(g) \X NodeKeys(g) \X NodeKeys(g) :
            EdgesBetween(g, p[1], p[2]) # <<>> /\ EdgesBetween(g, p[2], p[3]) # <<>>}

PathLists(g) ==
    UNION {[1..n -> Paths(g)] : n \in 1..MaxPaths}

Init ==
    /\ G = SeedGraph
    /\ last = [op |-> "init", n |-> 0]
    /\ call = None
    /\ hist = <<>>
    /\ heap = <<>>

Normalize ==
    /\ last.n < MaxCalls
    /\ \E c \in PipelineCalls :
          /\ G' = load_res_to_networkx(c.res, G, c.labels, c.id_mapping, c.output_id_types)
          /\ last' = [op |-> "normalize", n |-> last.n + 1, pre |-> G, args |-> c]
    /\ UNCHANGED <<call, hist, heap>>

Resolve ==
    /\ last.n < MaxCalls
    /\ \E IDConverter \in SUBSET NodeKeys(G) :
          LET out == add_equivalent_ids_to_nodes(G, IDConverter)
          IN  /\ G' = out.g
              /\ last' = [op |-> "resolve", n |-> last.n + 1, pre |-> G,
                          idc_inputs |-> out.idc_inputs,
                          equivalent_ids |-> out.equivalent_ids, ret |-> out.ret]
    /\ UNCHANGED <<call, hist, heap>>

Merge ==
    /\ last.n < MaxCalls
    /\ \E G2 \in IncomingGraphs :
          /\ G' = merge_two_networkx_graphs(G, G2)
          /\ last' = [op |-> "merge", n |-> last.n + 1, pre |-> G, incoming |-> G2]
    /\ UNCHANGED <<call, hist, heap>>

Tabularize ==
    /\ last.n < MaxCalls
    /\ \E paths \in PathLists(G) :
          last' = [op |-> "tabularize", n |-> last.n + 1, pre |-> G, paths |-> paths,
                   ret |-> connect_networkx_to_pandas_df(G, paths)]
    /\ UNCHANGED <<G, call, hist, heap>>

Next == Normalize \/ Resolve \/ Merge \/ Tabularize

Spec == Init /\ [][Next]_vars

Level2Keys(g) == {k \in NodeKeys(g) : NodeAttr(g, k).level = Level2}

\* the indices of the requests that hold node key k
RequestsOf(req, k) == {i \in 1..Len(req) : \E x \in 1..Len(req[i][1]) : req[i][1][x] = k}

\* every node with attributes has a level, and every level-2 node has a
\* string entity_type and a string identifier_kind
StringTyped(g) ==
    \A k \in NodeKeys(g) :
        /\ HasAttrs(NodeAttr(g, k)) => NodeAttr(g, k).level # Absent
        /\ k \in Level2Keys(g) =>
              /\ NodeAttr(g, k).type \notin {Absent, None} /\ IsStr(NodeAttr(g, k).type)
              /\ NodeAttr(g, k).identifier \notin {Absent, None} /\ IsStr(NodeAttr(g, k).identifier)

\* C5: whatever strings entity_type and identifier_kind are, the requests
\* handed to the resolver partition the level-2 nodes by (entity_type,
\* identifier_kind): each level-2 key is in exactly one request, once; no
\* other key is in any; two keys share a request iff they agree on both;
\* each request carries that identifier_kind and entity_type.
C5_Grouping ==
    (last.op = "resolve" /\ StringTyped(last.pre)) =>
        LET req == last.idc_inputs
            pre == last.pre
        IN  /\ \A k \in Level2Keys(pre) :
                  /\ Cardinality(RequestsOf(req, k)) = 1
                  /\ \A i \in RequestsOf(req, k) :
                        /\ Cardinality({x \in 1..Len(req[i][1]) : req[i][1][x] = k}) = 1
                        /\ req[i][2] = NodeAttr(pre, k).identifier
                        /\ req[i][3] = NodeAttr(pre, k).type
            /\ \A k \in NodeKeys(pre) \ Level2Keys(pre) : RequestsOf(req, k) = {}
            /\ \A k1, k2 \in Level2Keys(pre) :
                  (RequestsOf(req, k1) = RequestsOf(req, k2)) <=>
                      (/\ NodeAttr(pre, k1).type = NodeAttr(pre, k2).type
                       /\ NodeAttr(pre, k1).identifier = NodeAttr(pre, k2).identifier)

ReturnedKeys(eq) == {eq[i][1] : i \in 1..Len(eq)}

\* C6: after resolve, every node key k the resolver returned (':' in it or
\* not) holds the mapping returned for k as equivalent_ids; the other nodes
\* gain none; the nodes, the edges and every other attribute are as before.
C6_Attach ==
    last.op = "resolve" =>
        /\ \A i \in 1..Len(last.equivalent_ids) :
              /\ HasNode(G, last.equivalent_ids[i][1])
              /\ NodeAttr(G, last.equivalent_ids[i][1]).equivalent_ids = last.equivalent_ids[i][2]
        /\ \A k \in NodeKeys(last.pre) \ ReturnedKeys(last.equivalent_ids) :
              NodeAttr(G, k).equivalent_ids = NodeAttr(last.pre, k).equivalent_ids
        /\ G.edge = last.pre.edge
        /\ Len(G.node) = Len(last.pre.node)
        /\ \A i \in 1..Len(G.node) :
              /\ G.node[i].k = last.pre.node[i].k
              /\ \A f \in {"identifier", "type", "level"} : G.node[i].a[f] = last.pre.node[i].a[f]

\* the edges a path traverses
PathEdges(g, path) ==
    {e \in EdgeSet(g) : \E i \in 1..(Len(path) - 1) : e.u = path[i] /\ e.v = path[i + 1]}

\* every node of every path has its entity_type set
PathsTyped(g, paths) ==
    \A j \in 1..Len(paths) : \A i \in 1..Len(paths[j]) : ~IsRaise(NodeType(g, paths[j][i]))

\* rows a path is to yield: one per edge, or one per pair of a hop-1 and a
\* hop-2 edge
PathRowCount(g, path) ==
    IF Len(path) = 3
    THEN Len(EdgesBetween(g, path[1], path[2])) * Len(EdgesBetween(g, path[2], path[3]))
    ELSE Len(EdgesBetween(g, path[1], path[2]))

RECURSIVE TotalRowCount(_, _)
TotalRowCount(g, paths) ==
    IF paths = <<>> THEN 0 ELSE PathRowCount(g, Head(paths)) + TotalRowCount(g, Tail(paths))

\* C7: without filters, a 3-node path with m edges on hop 1 and n on hop 2
\* yields m*n rows, one per pair (e1, e2), pred1 from e1 and pred2 from e2; a
\* 2-node path with m edges yields m rows; the table holds the sum.
C7_Cartesian ==
    (last.op = "tabularize" /\ PathsTyped(last.pre, last.paths)) =>
        /\ ~IsRaise(last.ret)
        /\ Len(Items(last.ret)) = TotalRowCount(last.pre, last.paths)
        /\ \A j \in 1..Len(last.paths) :
              LET path == last.paths[j]
                  off == TotalRowCount(last.pre, SubSeq(last.paths, 1, j - 1))
                  e1 == EdgesBetween(last.pre, path[1], path[2])
                  e2 == IF Len(path) = 3 THEN EdgesBetween(last.pre, path[2], path[3]) ELSE <<>>
              IN  IF Len(path) = 3
                  THEN \A x \in 1..Len(e1) : \A y \in 1..Len(e2) :
                          LET row == Items(last.ret)[off + (x - 1) * Len(e2) + y]
                          IN  /\ row.pred1 = StripPrefix(e1[x].d.label)
                              /\ row.pred2 = StripPrefix(e2[y].d.label)
                  ELSE \A x \in 1..Len(e1) : Items(last.ret)[off + x].pred1 = e1[x].d.label

\* C9: tabularizing paths whose edges normalize built from scalar values
\* (info null, no source) does not fail and yields their rows with the
\* provenance columns null.
C9_NullProvenance ==
    (/\ last.op = "tabularize"
     /\ PathsTyped(last.pre, last.paths)
     /\ \A j \in 1..Len(last.paths) :
           \A e \in PathEdges(last.pre, last.paths[j]) : e.d.info = None) =>
        /\ ~IsRaise(last.ret)
        /\ Len(Items(last.ret)) >= 1
        /\ \A i \in 1..Len(Items(last.ret)) :
              LET row == Items(last.ret)[i]
              IN  /\ row.pred1_source = None /\ row.pred1_api = None /\ row.pred1_pubmed = None
                  /\ "pred2" \in DOMAIN row =>
                        (row.pred2_source = None /\ row.pred2_api = None /\ row.pred2_pubmed = None)

\* C10: every endpoint of an edge has entity_type and level set and not
\* null, and equivalent_ids, where present, has at least one entry.
C10_NodeInvariant ==
    /\ \A e \in EdgeSet(G) : \A k \in {e.u, e.v} :
          /\ NodeAttr(G, k).type \notin {Absent, None}
          /\ NodeAttr(G, k).level \notin {Absent, None}
    /\ \A k \in NodeKeys(G) :
          NodeAttr(G, k).equivalent_ids # Absent => NodeAttr(G, k).equivalent_ids[2] # <<>>

====
